---- MODULE Spec2Model ----
(***************************************************************************)
(* The community-model build pipeline of server/transform.go:              *)
(* TransferringModelData, createModelBlob,                                 *)
(* PullModelFromCommunityRegistry and CreateCommunityModel, over a blob    *)
(* store, an alias cache (intermediateBlobs) and a manifest store.         *)
(***************************************************************************)
EXTENDS Integers, Sequences, FiniteSets, TLC

(* ------------------------------- bounds -------------------------------- *)

\* distinct byte contents a downloaded model file can have
MaxContent == 3
\* length of the base layer lists the merge step is started on directly
MaxLayers == 2
(* chunks io.Copy reads a file in, at most *)
MaxChunks == 2

(* ------------------------- program constants --------------------------- *)

\* strings.Count(mp.Tag, ":") > 2 is rejected
MaxColons == 2

SupportCommunityRegistry == <<"huggingface.co", "modelers.cn">>

SupportCommunityRegistrySubPath ==
    <<"%s/resolve/main/%s", "/coderepo/web/v1/file/%s/main/media/%s">>

MediaModel == "application/vnd.ollama.image.model"
MediaMessage == "application/vnd.ollama.image.message"
MediaMessages == "application/vnd.ollama.image.messages"
MediaParams == "application/vnd.ollama.image.params"
MediaConfig == "application/vnd.docker.container.image.v1+json"

(* ------------------------------ data ----------------------------------- *)

Names == {"n1", "n2"}
\* the names a build is asked for: a model's, or one that does not parse
InvalidName == "?"
BuildNames == {"n1", InvalidName}
Registries == {"huggingface.co", "modelers.cn", "example.org"}

ParamKeys == {"a", "b"}
\* a parameter value; Absent marks a key the map does not hold
Absent == "absent"
ParamVals == {"1", "2"}
ParamMaps == [ParamKeys -> ParamVals \cup {Absent}]
NoParams == [k \in ParamKeys |-> Absent]
Keys(m) == {k \in ParamKeys : m[k] # Absent}

\* byte contents: a model file, an encoded parameter map, an encoded config
FileContent(i) == [kind |-> "gguf", v |-> i]
FileContents == {FileContent(i) : i \in 1..MaxContent}

EncodeParams(m) == [kind |-> "params", v |-> m]
EncodeMessages(ms) == [kind |-> "messages", v |-> ms]
EncodeConfig(c) == [kind |-> "config", v |-> c]

\* the blob a stale alias used to point at (an intermediate, converted blob)
IntermediateContent == [kind |-> "gguf", v |-> 0]

\* sha256 of a byte content, rendered "sha256:<hex>"; injective on contents
Digest(c) == <<"sha256", c>>
NoDigest == <<"">>

FileDigests == {Digest(c) : c \in FileContents}

\* json decoding of a blob into map[string]any: only an encoded map decodes
CanDecodeParams(c) == c.kind = "params"
DecodeParams(c) == c.v

(* Layer{Digest, MediaType, status} *)
Layer(d, mt, st) == [Digest |-> d, MediaType |-> mt, status |-> st]
NoLayer == Layer(NoDigest, "", "")

(* the model metadata of a layerGGML; nil when the layer carries none *)
GGML(name, arch, count, ft) ==
    [nil |-> FALSE, Name |-> name, Architecture |-> arch,
     ParameterCount |-> count, FileType |-> ft]
NilGGML ==
    [nil |-> TRUE, Name |-> "", Architecture |-> "",
     ParameterCount |-> 0, FileType |-> ""]

LayerGGML(l, g) == [Layer |-> l, GGML |-> g]

(* a layer as a manifest file holds it: status is not serialised *)
Stored(l) == [l EXCEPT !.status = ""]

(* Manifest{Config, Layers}; exists = FALSE stands for "no manifest" (nil) *)
Manifest(cl, ls) == [exists |-> TRUE, Config |-> cl, Layers |-> ls]
NoManifest == [exists |-> FALSE, Config |-> NoLayer, Layers |-> <<>>]

(* ConfigV2 as CreateCommunityModel initialises it *)
EmptyConfig ==
    [OS |-> "linux", Architecture |-> "amd64",
     RootFS |-> [Type |-> "layers", DiffIDs |-> <<>>],
     ModelFormat |-> "", ModelFamily |-> "", ModelFamilies |-> <<>>,
     ModelType |-> "", FileType |-> ""]

(* ------------------------------ helpers -------------------------------- *)

Range(s) == {s[i] : i \in 1..Len(s)}

DigestsOf(ls) == [i \in 1..Len(ls) |-> ls[i].Digest]

Restrict(f, S) == [x \in S |-> f[x]]

(* an error value; NoErr is Go's nil error *)
NoErr == "nil"
ErrDigestMismatch == "digest mismatch"
(* GetBlobsPath finds no blob to give the path of *)
ErrNotFound == "blob not found"

(* ------------------------------ state ----------------------------------- *)

VARIABLES
    blobs,              \* the blob store: digest -> stored bytes
    intermediateBlobs,  \* the process-wide alias cache: digest -> digest
    manifests,          \* the manifest store: Name -> current manifest
    noPrune,            \* envconfig.NoPrune()
    pc,                 \* where the build is
    mp,                 \* the Name and the number of files of the ModelPath
    todo,               \* modelFiles still to process
    tmpFile,            \* bytes of the downloaded temporary file
    digest,             \* digest TransferringModelData returned
    digests,            \* PullModelFromCommunityRegistry's digests
    next,               \* index into digestArr of CreateCommunityModel's loop
    baseLayers,         \* CreateCommunityModel's locals ...
    layers,
    config,
    messages,
    parameters,
    configLayer,
    old,
    events,             \* statuses handed to fn, oldest first
    result,             \* what the last call returned
    manifests0,         \* history: the manifest store before the build
    intermediateBlobs0, \* history: the alias cache before the build
    bin,                \* TransferringModelData: the file it opened
    hashed,             \* ... chunks of it io.Copy has written to the hash
    spinner,            \* ... the message of its spinner
    p,                  \* ... its progress display
    done,               \* ... its done channel
    ticker,             \* ... its goroutine
    builds,             \* concurrent builds at the alias cache, by Name
    parameters0         \* history: parameters as the merge scan found it

vars ==
    <<blobs, intermediateBlobs, manifests, noPrune, pc, mp, todo,
      tmpFile, digest, digests, next, baseLayers, layers, config, messages,
      parameters, configLayer, old, events, result, manifests0,
      intermediateBlobs0, bin, hashed, spinner, p, done, ticker, builds,
      parameters0>>

transfer == <<bin, hashed, spinner, p, done, ticker>>

stores ==
    <<blobs, intermediateBlobs, manifests, noPrune, manifests0, intermediateBlobs0>>
locals ==
    <<baseLayers, layers, config, messages, parameters, configLayer, old,
      parameters0>>

(* --------------------- collaborators (not in transform.go) -------------- *)

(* NewLayer(r, mediatype): stores the bytes under their own digest, unless a
   blob of that digest is there already, and returns the layer *)
NewLayerStore(store, c) ==
    IF Digest(c) \in DOMAIN store THEN store ELSE (Digest(c) :> c) @@ store

NewLayer(store, c, mt) ==
    Layer(Digest(c), mt,
          IF Digest(c) \in DOMAIN store
          THEN "using existing layer" ELSE "creating new layer")

(* format.HumanNumber of a small parameter count *)
HumanNumber(n) == ToString(n)

(* the digests the current manifests refer to *)
Referenced(ms) ==
    UNION {Range(DigestsOf(ms[n].Layers)) \cup {ms[n].Config.Digest} :
           n \in {x \in DOMAIN ms : ms[x].exists}}

(* a removal that deletes the blobs it walks whether or not a manifest
   refers to them *)
RemoveLayersReferenced(store, ms, m, stopAt) ==
    LET all == DigestsOf(Append(m.Layers, m.Config))
        walked == IF stopAt = 0 THEN Len(all) ELSE stopAt - 1
    IN  Restrict(store, DOMAIN store \ {all[i] : i \in 1..walked})

(* Manifest.RemoveLayers: walks the manifest's layers, then its config, and
   deletes each blob no current manifest refers to; stopAt = 0 is a full
   walk, stopAt = k an error at the k-th layer with the earlier ones done *)
RemoveLayers(store, ms, m, stopAt) ==
    LET all == DigestsOf(Append(m.Layers, m.Config))
        walked == IF stopAt = 0 THEN Len(all) ELSE stopAt - 1
        gone == {all[i] : i \in 1..walked} \ Referenced(ms)
    IN  Restrict(store, DOMAIN store \ gone)

(* WriteManifest(name, config, layers): replaces the Name's manifest in one
   step *)
WriteManifest(ms, n, cl, ls) ==
    [ms EXCEPT ![n] = Manifest(Stored(cl), [i \in 1..Len(ls) |-> Stored(ls[i])])]

(* ParseNamedManifest(name): the Name's current manifest, nil if there is none *)
ParseNamedManifest(ms, n) == ms[n]

(* model.Name.IsValid *)
IsValid(n) == n \in Names

(* ---------------------------- transform.go ------------------------------ *)

(* GetSupportCommunityRegistrySubPath *)
GetSupportCommunityRegistrySubPath(registry) ==
    IF \E i \in 1..Len(SupportCommunityRegistry) :
           SupportCommunityRegistry[i] = registry
    THEN SupportCommunityRegistrySubPath[
             CHOOSE i \in 1..Len(SupportCommunityRegistry) :
                 SupportCommunityRegistry[i] = registry]
    ELSE ""

(* TransferringModelData: the digest of the file's bytes *)
TransferringModelData(file) == Digest(file)

(* I/O faults createModelBlob can meet, one per call at most *)
BlobFaults ==
    {"none", "open", "aliaspath", "aliasmissing", "aliasstat", "path", "stat",
     "newlayer"}

(* createModelBlob past the alias block: lines 180-204 *)
IngestBlob(store, aliases, dg, file, fault) ==
    IF fault = "path" THEN [err |-> "path error", blobs |-> store, aliases |-> aliases]
    ELSE IF fault = "stat" THEN [err |-> "stat error", blobs |-> store, aliases |-> aliases]
    ELSE IF dg \in DOMAIN store THEN [err |-> NoErr, blobs |-> store, aliases |-> aliases]
    ELSE IF fault = "newlayer" THEN [err |-> NoErr, blobs |-> store, aliases |-> aliases]
    ELSE IF NewLayer(store, file, "").Digest # dg
         THEN [err |-> ErrDigestMismatch, blobs |-> NewLayerStore(store, file),
               aliases |-> aliases]
         ELSE [err |-> NoErr, blobs |-> NewLayerStore(store, file), aliases |-> aliases]

(* createModelBlob that leaves a stale alias entry in the cache *)
createModelBlobKeepingAlias(store, aliases, dg, file, fault) ==
    IF fault = "open" THEN [err |-> "open error", blobs |-> store, aliases |-> aliases]
    ELSE IF dg \in DOMAIN aliases
    THEN IF fault = "aliaspath"
         THEN [err |-> "path error", blobs |-> store, aliases |-> aliases]
         ELSE IF fault = "aliasmissing"
         THEN [err |-> ErrNotFound, blobs |-> store, aliases |-> aliases]
         ELSE IF fault # "aliasstat" /\ aliases[dg] \notin DOMAIN store
         THEN IngestBlob(store, aliases, dg, file, fault)
         ELSE IF fault = "aliasstat"
         THEN [err |-> "stat error", blobs |-> store, aliases |-> aliases]
         ELSE [err |-> NoErr, blobs |-> store, aliases |-> aliases]
    ELSE IngestBlob(store, aliases, dg, file, fault)

(* createModelBlob(digest, file): what it returns and what it leaves in the
   blob store and the alias cache; file is the bytes found at the path *)
createModelBlob(store, aliases, dg, file, fault) ==
    IF fault = "open" THEN [err |-> "open error", blobs |-> store, aliases |-> aliases]
    ELSE IF dg \in DOMAIN aliases
    THEN IF fault = "aliaspath"
         THEN [err |-> "path error", blobs |-> store, aliases |-> aliases]
         ELSE IF fault = "aliasmissing"
         THEN [err |-> ErrNotFound, blobs |-> store, aliases |-> aliases]
         ELSE IF fault # "aliasstat" /\ aliases[dg] \notin DOMAIN store
         THEN IngestBlob(store, Restrict(aliases, DOMAIN aliases \ {dg}),
                         dg, file, fault)
         ELSE IF fault = "aliasstat"
         THEN [err |-> "stat error", blobs |-> store, aliases |-> aliases]
         ELSE [err |-> NoErr, blobs |-> store, aliases |-> aliases]
    ELSE IngestBlob(store, aliases, dg, file, fault)

(* I/O faults one pass of CreateCommunityModel's digest loop can meet *)
ResolveFaults ==
    {"none", "aliaspath", "aliasmissing", "aliasstat", "path", "open", "parse"}

(* lines 299-325 for one digest: the digest whose blob is opened, whether
   the alias was used, the error if the pass returns one. The alias cache
   is only read *)
ResolveDigest(store, aliases, dg, fault) ==
    LET hit == dg \in DOMAIN aliases
        live == hit /\ fault # "aliasstat" /\ aliases[dg] \in DOMAIN store
        use == IF live THEN aliases[dg] ELSE dg
    IN  IF hit /\ fault = "aliaspath"
        THEN [err |-> "path error", digest |-> dg, cached |-> FALSE]
        ELSE IF hit /\ fault = "aliasmissing"
        THEN [err |-> ErrNotFound, digest |-> dg, cached |-> FALSE]
        ELSE IF hit /\ fault = "aliasstat"
        THEN [err |-> "stat error", digest |-> dg, cached |-> FALSE]
        ELSE IF fault = "path"
        THEN [err |-> "path error", digest |-> use, cached |-> live]
        ELSE IF fault = "open" \/ use \notin DOMAIN store
        THEN [err |-> "open error", digest |-> use, cached |-> live]
        ELSE [err |-> NoErr, digest |-> use, cached |-> live]

(* a choice in which the later value replaces the one already set *)
CmpOrLater(a, b) == IF b # "" THEN b ELSE a

(* cmp.Or(a, b): the first of the two that is not the zero value *)
CmpOr(a, b) == IF a # "" THEN a ELSE b

(* lines 336-342 for one base layer *)
ConfigWith(cfg, g) ==
    IF g.nil THEN cfg
    ELSE [cfg EXCEPT
            !.ModelFormat = CmpOr(cfg.ModelFormat, g.Name),
            !.ModelFamily = CmpOr(cfg.ModelFamily, g.Architecture),
            !.ModelType = CmpOr(cfg.ModelType, HumanNumber(g.ParameterCount)),
            !.FileType = CmpOr(cfg.FileType, g.FileType),
            !.ModelFamilies = Append(cfg.ModelFamilies, g.Architecture)]

RECURSIVE SynthConfig(_, _)
(* lines 335-345: the config after the base layers, in order *)
SynthConfig(cfg, bls) ==
    IF bls = <<>> THEN cfg
    ELSE SynthConfig(ConfigWith(cfg, Head(bls).GGML), Tail(bls))

(* a merge in which the inherited value wins over the one parameters holds *)
MergeParamsInheritedWins(params, ps) ==
    [k \in ParamKeys |-> IF ps[k] # Absent THEN ps[k] ELSE params[k]]

(* lines 372-376: inherited keys fill the keys parameters does not hold *)
MergeParams(params, ps) ==
    [k \in ParamKeys |-> IF params[k] # Absent THEN params[k] ELSE ps[k]]

(* the removal predicate of lines 348-382 on one layer: whether the layer is
   deleted, and parameters and err2 after it *)
MergeLayer(store, msgs, params, e2, l) ==
    IF l.MediaType = MediaMessage
    THEN [del |-> Len(msgs) > 0, parameters |-> params, err2 |-> e2]
    ELSE IF l.MediaType = MediaParams
    THEN IF l.Digest \notin DOMAIN store
         THEN [del |-> FALSE, parameters |-> params,
               err2 |-> <<"open error", l.Digest>>]
         ELSE IF ~CanDecodeParams(store[l.Digest])
         THEN [del |-> FALSE, parameters |-> params,
               err2 |-> <<"decode error", l.Digest>>]
         ELSE [del |-> TRUE,
               parameters |-> MergeParams(params, DecodeParams(store[l.Digest])),
               err2 |-> e2]
    ELSE [del |-> FALSE, parameters |-> params, err2 |-> e2]

NoErr2 == <<NoErr, NoDigest>>

RECURSIVE MergeScan(_, _, _, _, _)
(* slices.DeleteFunc of lines 348-382 over the layer list *)
MergeScan(store, msgs, params, e2, ls) ==
    IF ls = <<>> THEN [layers |-> <<>>, parameters |-> params, err2 |-> e2]
    ELSE LET r == MergeLayer(store, msgs, params, e2, Head(ls))
             rest == MergeScan(store, msgs, r.parameters, r.err2, Tail(ls))
         IN  [rest EXCEPT
                !.layers = (IF r.del THEN <<>> ELSE <<Head(ls)>>) \o rest.layers]

(* ------------------------- the opaque layer parser ---------------------- *)

(* the parameter map of an overlay an accumulated layer list may carry *)
InheritedParams == [k \in ParamKeys |-> IF k = "a" THEN "1" ELSE Absent]
(* that of a second overlay, which disagrees with the first on "a" *)
OtherParams == [k \in ParamKeys |-> "2"]

(* parseFromFile: what it appends to baseLayers for the blob of digest d
   holding the bytes c; the same bytes always parse to the same layers *)
parseFromFile(d, c) ==
    IF c.v <= 1 THEN <<LayerGGML(Layer(d, MediaModel, ""), GGML("gguf", "llama", 1, "Q4_0"))>>
    ELSE IF c.v = 2
    THEN <<LayerGGML(Layer(d, MediaModel, ""), GGML("other", "", 0, "F16"))>>
    ELSE IF c.v = 3
    THEN <<LayerGGML(Layer(d, MediaMessages, ""), NilGGML),
           LayerGGML(Layer(Digest(EncodeParams(InheritedParams)), MediaParams, ""),
                     NilGGML)>>
    ELSE <<LayerGGML(Layer(d, MediaModel, ""), NilGGML)>>

(* ------------------------------- Init ----------------------------------- *)

NoContent == [kind |-> "", v |-> 0]
NoModelPath == [name |-> InvalidName, files |-> 0]

(* a manifest an earlier build published for the layers ls *)
Published(ls) ==
    Manifest(
        Layer(Digest(EncodeConfig([EmptyConfig EXCEPT !.RootFS.DiffIDs = DigestsOf(ls)])),
              MediaConfig, ""),
        ls)

OldModel == Layer(Digest(FileContent(1)), MediaModel, "")
OldParams == Layer(Digest(EncodeParams(InheritedParams)), MediaParams, "")

(* the manifest stores a build may find *)
InitManifests ==
    {[n \in Names |-> IF n = "n1" THEN m1 ELSE m2] :
       m1 \in {NoManifest, Published(<<OldModel>>), Published(<<OldModel, OldParams>>)},
       m2 \in {NoManifest, Published(<<OldModel>>)}}

(* the bytes a digest of the initial stores stands for *)
InitContents ==
    {FileContent(1), IntermediateContent, EncodeParams(InheritedParams),
     EncodeParams(OtherParams)}
    \cup {EncodeConfig([EmptyConfig EXCEPT !.RootFS.DiffIDs = DigestsOf(ls)]) :
            ls \in {<<OldModel>>, <<OldModel, OldParams>>}}

BlobsOf(S) == [d \in {Digest(c) : c \in S} |-> CHOOSE c \in S : Digest(c) = d]

(* alias entries recorded before the build *)
InitAliases ==
    {[d \in S |-> Digest(IntermediateContent)] : S \in SUBSET {Digest(FileContent(1))}}

(* the blob stores a build may find: every blob a manifest refers to, the
   target of an alias or not, and any of the other blobs *)
InitBlobs(ms, aliases) ==
    {BlobsOf({c \in InitContents : Digest(c) \in Referenced(ms) \cup S}) :
       S \in SUBSET ({Digest(FileContent(1)), Digest(EncodeParams(InheritedParams))}
                     \cup {aliases[d] : d \in DOMAIN aliases})}

(* the statuses TransferringModelData gives its spinner *)
Status == "transferring model data"
ZeroStatus == "transferring model data 0%"
TickStatus == "transferring model data ..."
FullStatus == "transferring model data 100%"

(* no build is modelled at the alias cache on its own *)
NoBuilds == <<>>

(* no call of TransferringModelData has made its locals yet *)
NoTransfer ==
    /\ bin = "nil"
    /\ hashed = 0
    /\ spinner = ""
    /\ p = "nil"
    /\ done = "nil"
    /\ ticker = "none"

LocalsReset ==
    /\ baseLayers' = <<>>
    /\ layers' = <<>>
    /\ config' = EmptyConfig
    /\ messages' = <<>>
    /\ parameters' = NoParams
    /\ configLayer' = NoLayer
    /\ old' = NoManifest
    /\ parameters0' = NoParams

Init ==
    /\ manifests \in InitManifests
    /\ intermediateBlobs \in InitAliases
    /\ blobs \in InitBlobs(manifests, intermediateBlobs)
    /\ noPrune \in BOOLEAN
    /\ pc = "idle"
    /\ mp = NoModelPath
    /\ todo = 0
    /\ tmpFile = NoContent
    /\ digest = NoDigest
    /\ digests = <<>>
    /\ next = 0
    /\ baseLayers = <<>>
    /\ layers = <<>>
    /\ config = EmptyConfig
    /\ messages = <<>>
    /\ parameters = NoParams
    /\ configLayer = NoLayer
    /\ old = NoManifest
    /\ events = <<>>
    /\ result = NoErr
    /\ manifests0 = manifests
    /\ intermediateBlobs0 = intermediateBlobs
    /\ NoTransfer
    /\ builds = NoBuilds
    /\ parameters0 = NoParams

(* a return of PullModelFromCommunityRegistry *)
Return(r) ==
    /\ pc' = "done"
    /\ result' = r

(* a return of PullModelFromCommunityRegistry out of its loop over the
   files, whose variables go out of scope *)
ReturnFromLoop(r) ==
    /\ Return(r)
    /\ todo' = 0
    /\ tmpFile' = NoContent
    /\ digest' = NoDigest
    /\ digests' = <<>>

(* ------------------- PullModelFromCommunityRegistry --------------------- *)

(* lines 207-223: the call, with n the number of ":"-separated tag parts *)
Pull(reg, nm, n) ==
    /\ pc = "idle"
    /\ mp' = [name |-> nm, files |-> n]
    /\ todo' = n
    /\ tmpFile' = NoContent
    /\ digest' = NoDigest
    /\ digests' = <<>>
    /\ next' = 0
    /\ LocalsReset
    /\ events' = <<>>
    /\ IF GetSupportCommunityRegistrySubPath(reg) = ""
       THEN Return("Failed to get community registry subPath")
       ELSE IF n - 1 > MaxColons
       THEN Return("Invalid model name")
       ELSE pc' = "download" /\ result' = "running"
    /\ UNCHANGED <<builds, transfer, stores>>

(* lines 227-241: downloadCommunityModel *)
Download ==
    /\ pc = "download"
    /\ \/ ReturnFromLoop("download error")
       \/ /\ \E c \in FileContents : tmpFile' = c
          /\ pc' = "transfer"
          /\ UNCHANGED <<result, todo, digest, digests>>
    /\ UNCHANGED <<builds, transfer, stores, mp, next, locals, events>>

(* lines 249-252: TransferringModelData(tmpFile) *)
Transfer ==
    /\ pc = "transfer"
    /\ \/ ReturnFromLoop("io error")
       \/ /\ digest' = TransferringModelData(tmpFile)
          /\ pc' = "blob"
          /\ UNCHANGED <<result, todo, tmpFile, digests>>
    /\ UNCHANGED <<builds, transfer, stores, mp, next, locals, events>>

(* lines 254-258: createModelBlob(digest, tmpFile), on the bytes the path
   holds now *)
Blob ==
    /\ pc = "blob"
    /\ \E fault \in BlobFaults :
         LET r == createModelBlob(blobs, intermediateBlobs, digest, tmpFile, fault)
         IN  /\ blobs' = r.blobs
             /\ intermediateBlobs' = r.aliases
             /\ IF r.err # NoErr
                THEN ReturnFromLoop(r.err)
                ELSE /\ digests' = Append(digests, digest)
                     /\ todo' = todo - 1
                     /\ tmpFile' = NoContent
                     /\ digest' = NoDigest
                     /\ pc' = IF todo = 1 THEN "name" ELSE "download"
                     /\ UNCHANGED result
    /\ UNCHANGED <<builds, transfer, manifests, noPrune, manifests0, intermediateBlobs0, mp, next, locals, events>>

(* lines 261-270: the name checks, then the call of CreateCommunityModel *)
NameCheck ==
    /\ pc = "name"
    /\ IF ~IsValid(mp.name)
       THEN ReturnFromLoop("invalid model name") /\ UNCHANGED next
       ELSE \/ ReturnFromLoop("name exists") /\ UNCHANGED next
            \/ /\ pc' = "resolve"
               /\ next' = 1
               /\ UNCHANGED <<result, todo, tmpFile, digest, digests>>
    /\ UNCHANGED <<builds, transfer, stores, mp, locals, events>>

(* -------------------------- CreateCommunityModel ------------------------ *)

(* a return of CreateCommunityModel out of its loop over digestArr *)
ReturnFromResolve(r) ==
    /\ Return(r)
    /\ digests' = <<>>
    /\ next' = 0
    /\ baseLayers' = <<>>

(* lines 298-333: one pass of the loop over digestArr *)
Resolve ==
    /\ pc = "resolve"
    /\ \E fault \in ResolveFaults :
         LET r == ResolveDigest(blobs, intermediateBlobs, digests[next], fault)
         IN  /\ events' = IF r.cached
                          THEN Append(events, "using cached layer") ELSE events
             /\ IF r.err # NoErr
                THEN ReturnFromResolve(r.err)
                ELSE IF fault = "parse"
                THEN ReturnFromResolve("parse error")
                ELSE /\ baseLayers' =
                          baseLayers \o parseFromFile(r.digest, blobs[r.digest])
                     /\ next' = next + 1
                     /\ pc' = IF next = Len(digests) THEN "synth" ELSE "resolve"
                     /\ UNCHANGED <<result, digests>>
    /\ UNCHANGED <<builds, transfer, stores, mp, todo, tmpFile, digest, layers,
                   config, messages, parameters, configLayer, old, parameters0>>

(* lines 335-345: the config fields and the layer list from the base layers *)
Synth ==
    /\ pc = "synth"
    /\ config' = SynthConfig(config, baseLayers)
    /\ layers' = layers \o [i \in 1..Len(baseLayers) |-> baseLayers[i].Layer]
    /\ pc' = "merge"
    /\ UNCHANGED <<builds, transfer, stores, mp, todo, tmpFile, digest, digests, next,
                   baseLayers, messages, parameters, configLayer, old, events,
                   result, parameters0>>

(* lines 347-386: the merge scan, and the return of the error it kept *)
Merge ==
    /\ pc = "merge"
    /\ LET r == MergeScan(blobs, messages, parameters, NoErr2, layers)
       IN  /\ layers' = r.layers
           /\ parameters' = r.parameters
           /\ IF r.err2 # NoErr2
              THEN Return(r.err2[1])
              ELSE pc' = "messages" /\ UNCHANGED result
    /\ UNCHANGED <<builds, transfer, stores, mp, todo, tmpFile, digest, digests, next,
                   baseLayers, config, messages, configLayer, old, events,
                   parameters0>>

(* lines 388-400: the layer of the new messages *)
AppendMessages ==
    /\ pc = "messages"
    /\ IF Len(messages) > 0
       THEN \/ Return("layer error") /\ UNCHANGED <<blobs, layers>>
            \/ /\ blobs' = NewLayerStore(blobs, EncodeMessages(messages))
               /\ layers' = Append(layers,
                     NewLayer(blobs, EncodeMessages(messages), MediaMessages))
               /\ pc' = "params"
               /\ UNCHANGED result
       ELSE pc' = "params" /\ UNCHANGED <<blobs, layers, result>>
    /\ UNCHANGED <<builds, transfer, intermediateBlobs, manifests, noPrune, manifests0, intermediateBlobs0, mp, todo,
                   tmpFile, digest, digests, next, baseLayers, config, messages,
                   parameters, configLayer, old, events, parameters0>>

(* lines 402-414: the layer of the merged parameters *)
AppendParams ==
    /\ pc = "params"
    /\ IF Keys(parameters) # {}
       THEN \/ Return("layer error") /\ UNCHANGED <<blobs, layers>>
            \/ /\ blobs' = NewLayerStore(blobs, EncodeParams(parameters))
               /\ layers' = Append(layers,
                     NewLayer(blobs, EncodeParams(parameters), MediaParams))
               /\ pc' = "config"
               /\ UNCHANGED result
       ELSE pc' = "config" /\ UNCHANGED <<blobs, layers, result>>
    /\ UNCHANGED <<builds, transfer, intermediateBlobs, manifests, noPrune, manifests0, intermediateBlobs0, mp, todo,
                   tmpFile, digest, digests, next, baseLayers, config, messages,
                   parameters, configLayer, old, events, parameters0>>

(* the digests of the layers, last layer first *)
LayerDigestsReversed(ls) == [i \in 1..Len(ls) |-> ls[Len(ls) + 1 - i].Digest]

(* lines 416-419: digests[i] = layer.Digest *)
LayerDigests(ls) == [i \in 1..Len(ls) |-> ls[i].Digest]

(* lines 416-431: DiffIDs, and the config layer *)
MakeConfig ==
    /\ pc = "config"
    /\ config' = [config EXCEPT !.RootFS.DiffIDs = LayerDigests(layers)]
    /\ \/ Return("layer error") /\ UNCHANGED <<blobs, configLayer>>
       \/ /\ blobs' = NewLayerStore(blobs, EncodeConfig(config'))
          /\ configLayer' = NewLayer(blobs, EncodeConfig(config'), MediaConfig)
          /\ pc' = "status"
          /\ UNCHANGED result
    /\ UNCHANGED <<builds, transfer, intermediateBlobs, manifests, noPrune, manifests0, intermediateBlobs0, mp, todo,
                   tmpFile, digest, digests, next, baseLayers, layers, messages,
                   parameters, old, events, parameters0>>

RECURSIVE Statuses(_)
(* lines 433-437: the status of every layer that has one *)
Statuses(ls) ==
    IF ls = <<>> THEN <<>>
    ELSE (IF Head(ls).status # "" THEN <<Head(ls).status>> ELSE <<>>)
         \o Statuses(Tail(ls))

EmitStatuses ==
    /\ pc = "status"
    /\ events' = events \o Statuses(Append(layers, configLayer))
    /\ pc' = "old"
    /\ UNCHANGED <<builds, transfer, stores, mp, todo, tmpFile, digest, digests, next,
                   locals, result>>

(* line 439: old, nil when the Name has no manifest or it cannot be read *)
ReadOld ==
    /\ pc = "old"
    /\ old' \in {ParseNamedManifest(manifests, mp.name), NoManifest}
    /\ pc' = "write"
    /\ UNCHANGED <<builds, transfer, stores, mp, todo, tmpFile, digest, digests, next,
                   baseLayers, layers, config, messages, parameters,
                   configLayer, events, result, parameters0>>

(* Write with the new layers added to the old manifest's instead of
   replacing them *)
WriteOntoOld ==
    /\ pc = "write"
    /\ events' = Append(events, "writing manifest")
    /\ \/ Return("write error") /\ UNCHANGED manifests
       \/ /\ manifests' =
               WriteManifest(manifests, mp.name, configLayer, old.Layers \o layers)
          /\ pc' = "prune"
          /\ UNCHANGED result
    /\ UNCHANGED <<builds, transfer, blobs, intermediateBlobs, noPrune, manifests0, intermediateBlobs0, mp, todo, tmpFile,
                   digest, digests, next, locals>>

(* Write that leaves the new manifest behind when it fails *)
WriteBeforeFailing ==
    /\ pc = "write"
    /\ events' = Append(events, "writing manifest")
    /\ manifests' = WriteManifest(manifests, mp.name, configLayer, layers)
    /\ \/ Return("write error")
       \/ pc' = "prune" /\ UNCHANGED result
    /\ UNCHANGED <<builds, transfer, blobs, intermediateBlobs, noPrune, manifests0, intermediateBlobs0,
                   mp, todo, tmpFile, digest, digests, next, locals>>

(* lines 441-444 *)
Write ==
    /\ pc = "write"
    /\ events' = Append(events, "writing manifest")
    /\ \/ Return("write error") /\ UNCHANGED manifests
       \/ /\ manifests' = WriteManifest(manifests, mp.name, configLayer, layers)
          /\ pc' = "prune"
          /\ UNCHANGED result
    /\ UNCHANGED <<builds, transfer, blobs, intermediateBlobs, noPrune, manifests0, intermediateBlobs0, mp, todo, tmpFile,
                   digest, digests, next, locals>>

(* Prune that collects although pruning is disabled *)
PruneIgnoringNoPrune ==
    /\ pc = "prune"
    /\ IF old.exists
       THEN \E stopAt \in 0..(Len(old.Layers) + 1) :
              /\ blobs' = RemoveLayers(blobs, manifests, old, stopAt)
              /\ IF stopAt # 0
                 THEN Return("remove error")
                 ELSE pc' = "success" /\ UNCHANGED result
       ELSE pc' = "success" /\ UNCHANGED <<blobs, result>>
    /\ UNCHANGED <<builds, transfer, intermediateBlobs, manifests, noPrune, manifests0,
                   intermediateBlobs0, mp, todo, tmpFile, digest, digests, next,
                   locals, events>>

(* Prune that puts the old manifest back when the collection fails *)
PruneRollingBack ==
    /\ pc = "prune"
    /\ IF ~noPrune /\ old.exists
       THEN \E stopAt \in 0..(Len(old.Layers) + 1) :
              /\ blobs' = RemoveLayers(blobs, manifests, old, stopAt)
              /\ IF stopAt # 0
                 THEN /\ Return("remove error")
                      /\ manifests' = [manifests EXCEPT ![mp.name] = old]
                 ELSE pc' = "success" /\ UNCHANGED <<manifests, result>>
       ELSE pc' = "success" /\ UNCHANGED <<blobs, manifests, result>>
    /\ UNCHANGED <<builds, transfer, intermediateBlobs, noPrune, manifests0, intermediateBlobs0,
                   mp, todo, tmpFile, digest, digests, next, locals, events>>

(* Prune that goes on to the success status when the collection fails *)
PruneSwallowingError ==
    /\ pc = "prune"
    /\ IF ~noPrune /\ old.exists
       THEN \E stopAt \in 0..(Len(old.Layers) + 1) :
              blobs' = RemoveLayers(blobs, manifests, old, stopAt)
       ELSE UNCHANGED blobs
    /\ pc' = "success"
    /\ UNCHANGED <<builds, transfer, intermediateBlobs, manifests, noPrune, manifests0,
                   intermediateBlobs0, mp, todo, tmpFile, digest, digests, next,
                   locals, events, result>>

(* lines 446-450 *)
Prune ==
    /\ pc = "prune"
    /\ IF ~noPrune /\ old.exists
       THEN \E stopAt \in 0..(Len(old.Layers) + 1) :
              /\ blobs' = RemoveLayers(blobs, manifests, old, stopAt)
              /\ IF stopAt # 0
                 THEN Return("remove error")
                 ELSE pc' = "success" /\ UNCHANGED result
       ELSE pc' = "success" /\ UNCHANGED <<blobs, result>>
    /\ UNCHANGED <<builds, transfer, intermediateBlobs, manifests, noPrune, manifests0, intermediateBlobs0, mp, todo,
                   tmpFile, digest, digests, next, locals, events>>

(* Success that returns without the final status *)
SuccessSilent ==
    /\ pc = "success"
    /\ Return(NoErr)
    /\ UNCHANGED <<builds, transfer, stores, mp, todo, tmpFile, digest, digests, next,
                   locals, events>>

(* lines 452-453 *)
Success ==
    /\ pc = "success"
    /\ events' = Append(events, "success")
    /\ Return(NoErr)
    /\ UNCHANGED <<builds, transfer, stores, mp, todo, tmpFile, digest, digests, next,
                   locals>>

(* ----------------------------- environment ------------------------------ *)

(* another model's removal or prune deletes the blob an alias entry points
   at, while no manifest refers to it *)
Evict ==
    /\ pc \notin {"idle", "done"}
    /\ \E d \in ({intermediateBlobs[x] : x \in DOMAIN intermediateBlobs}
                  \cap DOMAIN blobs) \ Referenced(manifests) :
         blobs' = Restrict(blobs, DOMAIN blobs \ {d})
    /\ UNCHANGED <<builds, transfer, intermediateBlobs, manifests, noPrune, manifests0, intermediateBlobs0, pc, mp, todo,
                   tmpFile, digest, digests, next, locals, events, result>>

(* the temporary file is rewritten between its hashing and its ingestion *)
Tamper ==
    /\ pc = "blob"
    /\ Digest(tmpFile) = digest
    /\ \E c \in FileContents \ {tmpFile} : tmpFile' = c
    /\ UNCHANGED <<builds, transfer, stores, pc, mp, todo, digest, digests, next, locals, events,
                   result>>

(* ------------------------------- Spec ----------------------------------- *)

Next ==
    \/ \E reg \in Registries, nm \in BuildNames,
          n \in 1..(MaxColons + 2) : Pull(reg, nm, n)
    \/ Download
    \/ Transfer
    \/ Blob
    \/ NameCheck
    \/ Resolve
    \/ Synth
    \/ Merge
    \/ AppendMessages
    \/ AppendParams
    \/ MakeConfig
    \/ EmitStatuses
    \/ ReadOld
    \/ Write
    \/ Prune
    \/ Success
    \/ Evict
    \/ Tamper

Spec == Init /\ [][Next]_vars

(* ---------------- the merge and config steps on their inputs ------------- *)

(* base layers the opaque parser and accumulator may hand to the steps after
   the digest loop *)
BaseLayerChoices ==
    {LayerGGML(Layer(Digest(FileContent(1)), MediaModel, ""),
               GGML("gguf", "llama", 1, "Q4_0")),
     LayerGGML(Layer(Digest(FileContent(2)), MediaModel, ""),
               GGML("other", "", 0, "F16")),
     LayerGGML(Layer(Digest(FileContent(2)), MediaMessage, ""), NilGGML),
     LayerGGML(Layer(Digest(FileContent(3)), MediaMessages, ""), NilGGML),
     LayerGGML(Layer(Digest(EncodeParams(InheritedParams)), MediaParams, ""), NilGGML),
     LayerGGML(Layer(Digest(EncodeParams(OtherParams)), MediaParams, ""), NilGGML),
     LayerGGML(Layer(Digest(FileContent(1)), MediaParams, ""), NilGGML)}

BaseLayerLists ==
    UNION {[1..n -> BaseLayerChoices] : n \in 0..MaxLayers}

(* new messages and new parameters of a build *)
MessageInputs == {<<>>, <<"hello">>}
ParameterInputs == {NoParams, [k \in ParamKeys |-> IF k = "a" THEN "2" ELSE Absent]}

(* CreateCommunityModel past its digest loop (line 335), on any base layers,
   new messages and new parameters *)
MergeInit ==
    /\ manifests \in
         {[n \in Names |-> NoManifest],
          [n \in Names |-> IF n = "n1" THEN Published(<<OldModel, OldParams>>)
                           ELSE NoManifest]}
    /\ intermediateBlobs \in {m \in InitAliases : DOMAIN m = {}}
    /\ blobs \in
         {BlobsOf({c \in InitContents :
                     Digest(c) \in Referenced(manifests) \cup S
                                   \cup {Digest(FileContent(1))}}) :
            S \in SUBSET {Digest(EncodeParams(InheritedParams)),
                          Digest(EncodeParams(OtherParams))}}
    /\ noPrune \in BOOLEAN
    /\ pc = "synth"
    /\ mp = [name |-> "n1", files |-> 1]
    /\ todo = 0
    /\ tmpFile = NoContent
    /\ digest = NoDigest
    /\ digests = <<Digest(FileContent(1))>>
    /\ next = 2
    /\ baseLayers \in BaseLayerLists
    /\ layers = <<>>
    /\ config = EmptyConfig
    /\ messages \in MessageInputs
    /\ parameters \in ParameterInputs
    /\ configLayer = NoLayer
    /\ old = NoManifest
    /\ events = <<>>
    /\ result = "running"
    /\ manifests0 = manifests
    /\ intermediateBlobs0 = intermediateBlobs
    /\ NoTransfer
    /\ builds = NoBuilds
    /\ parameters0 = parameters

SpecMerge == (Init \/ MergeInit) /\ [][Next]_vars

(* ------------------- TransferringModelData, step by step ---------------- *)

(* the chunks io.Copy reads the file in *)
Size(c) == IF c.v > MaxChunks THEN MaxChunks ELSE c.v

(* the call of line 249 about to be made on a downloaded file *)
TransferInit ==
    /\ manifests = [n \in Names |-> NoManifest]
    /\ intermediateBlobs \in {m \in InitAliases : DOMAIN m = {}}
    /\ blobs = BlobsOf({})
    /\ noPrune = FALSE
    /\ pc = "transfer"
    /\ mp = [name |-> "n1", files |-> 1]
    /\ todo = 1
    /\ tmpFile \in FileContents
    /\ digest = NoDigest
    /\ digests = <<>>
    /\ next = 0
    /\ baseLayers = <<>>
    /\ layers = <<>>
    /\ config = EmptyConfig
    /\ messages = <<>>
    /\ parameters = NoParams
    /\ configLayer = NoLayer
    /\ old = NoManifest
    /\ events = <<>>
    /\ result = "running"
    /\ manifests0 = manifests
    /\ intermediateBlobs0 = intermediateBlobs
    /\ NoTransfer
    /\ builds = NoBuilds
    /\ parameters0 = NoParams

build ==
    <<stores, mp, todo, tmpFile, digests, next, locals, events, builds>>

(* lines 22-28: the progress display and its spinner *)
NewProgress ==
    /\ pc = "transfer"
    /\ p = "nil"
    /\ p' = "running"
    /\ spinner' = Status
    /\ pc' = "t.open"
    /\ UNCHANGED <<build, digest, result, bin, hashed, done, ticker>>

(* lines 30-34: os.Open(path) *)
Open ==
    /\ pc = "t.open"
    /\ \/ bin' = "open" /\ pc' = "t.copy" /\ UNCHANGED result
       \/ result' = "io error" /\ pc' = "t.stop" /\ UNCHANGED bin
    /\ UNCHANGED <<build, digest, hashed, spinner, p, done, ticker>>

(* lines 43-46: io.Copy(hash, bin), one chunk *)
Copy ==
    /\ pc = "t.copy"
    /\ hashed < Size(tmpFile)
    /\ \/ hashed' = hashed + 1 /\ UNCHANGED <<pc, result>>
       \/ result' = "io error" /\ pc' = "t.closebin" /\ UNCHANGED hashed
    /\ UNCHANGED <<build, digest, bin, spinner, p, done, ticker>>

(* lines 44-50: the end of the file met, and bin.Seek *)
Seek ==
    /\ pc = "t.copy"
    /\ hashed = Size(tmpFile)
    /\ \/ pc' = "t.zero" /\ UNCHANGED result
       \/ result' = "io error" /\ pc' = "t.closebin"
    /\ UNCHANGED <<build, digest, bin, hashed, spinner, p, done, ticker>>

(* lines 53-54 *)
SetZero ==
    /\ pc = "t.zero"
    /\ spinner' = ZeroStatus
    /\ pc' = "t.make"
    /\ UNCHANGED <<build, digest, result, bin, hashed, p, done, ticker>>

(* lines 56-57: done := make(chan struct{}) *)
MakeDone ==
    /\ pc = "t.make"
    /\ done' = "open"
    /\ pc' = "t.go"
    /\ UNCHANGED <<build, digest, result, bin, hashed, spinner, p, ticker>>

(* line 59: the go statement *)
Go ==
    /\ pc = "t.go"
    /\ ticker' = "started"
    /\ pc' = "t.sum"
    /\ UNCHANGED <<build, digest, result, bin, hashed, spinner, p, done>>

(* lines 74-76: the digest of what was hashed *)
Sum ==
    /\ pc = "t.sum"
    /\ digest' = TransferringModelData(tmpFile)
    /\ pc' = "t.closedone"
    /\ UNCHANGED <<build, result, bin, hashed, spinner, p, done, ticker>>

(* line 57, deferred: close(done) *)
CloseDone ==
    /\ pc = "t.closedone"
    /\ done' = "closed"
    /\ pc' = "t.closebin"
    /\ UNCHANGED <<build, digest, result, bin, hashed, spinner, p, ticker>>

(* line 34, deferred: bin.Close() *)
CloseBin ==
    /\ pc = "t.closebin"
    /\ bin' = "closed"
    /\ pc' = "t.stop"
    /\ UNCHANGED <<build, digest, result, hashed, spinner, p, done, ticker>>

(* line 28, deferred: p.Stop() *)
StopProgress ==
    /\ pc = "t.stop"
    /\ p' = "stopped"
    /\ pc' = "t.return"
    /\ UNCHANGED <<build, digest, result, bin, hashed, spinner, done, ticker>>

(* line 23, deferred: p.Stop() again, and the return to line 249 *)
TransferReturn ==
    /\ pc = "t.return"
    /\ p' = "stopped"
    /\ IF result = "running"
       THEN /\ pc' = "blob"
            /\ UNCHANGED <<result, todo, tmpFile, digest, digests>>
       ELSE ReturnFromLoop(result)
    /\ UNCHANGED <<stores, mp, next, locals, events, bin, hashed, spinner, done,
                   ticker, builds>>

(* lines 60-61: the goroutine makes its ticker *)
TickerNew ==
    /\ ticker = "started"
    /\ ticker' = "ticking"
    /\ UNCHANGED <<build, pc, digest, result, bin, hashed, spinner, p, done>>

(* Tick that goes on after the goroutine took the done case *)
TickAfterDone ==
    /\ ticker \in {"ticking", "stopping", "exited"}
    /\ spinner' = TickStatus
    /\ UNCHANGED <<build, pc, digest, result, bin, hashed, p, done, ticker>>

(* lines 64-66: case <-ticker.C *)
Tick ==
    /\ ticker = "ticking"
    /\ spinner' = TickStatus
    /\ UNCHANGED <<build, pc, digest, result, bin, hashed, p, done, ticker>>

(* lines 67-69: case <-done *)
TickerDone ==
    /\ ticker = "ticking"
    /\ done = "closed"
    /\ spinner' = FullStatus
    /\ ticker' = "stopping"
    /\ UNCHANGED <<build, pc, digest, result, bin, hashed, p, done>>

(* line 61, deferred: ticker.Stop(), and the goroutine ends *)
TickerStop ==
    /\ ticker = "stopping"
    /\ ticker' = "exited"
    /\ UNCHANGED <<build, pc, digest, result, bin, hashed, spinner, p, done>>

NextTransfer ==
    \/ NewProgress
    \/ Open
    \/ Copy
    \/ Seek
    \/ SetZero
    \/ MakeDone
    \/ Go
    \/ Sum
    \/ CloseDone
    \/ CloseBin
    \/ StopProgress
    \/ TransferReturn
    \/ TickerNew
    \/ Tick
    \/ TickerDone
    \/ TickerStop

(* the goroutine is scheduled, and a select with a closed done channel
   takes that case in the end *)
SpecTransfer ==
    /\ TransferInit
    /\ [][NextTransfer]_vars
    /\ WF_vars(TickerNew)
    /\ WF_vars(TickerDone)
    /\ WF_vars(TickerStop)

(* ------------------ two builds at the alias cache ----------------------- *)

(* what one build holds while createModelBlob (b.) and then the digest loop
   of CreateCommunityModel (r.) resolve its digest: ib the entry it read, use
   the digest it goes on with, missed whether its os.Stat found ib's blob
   gone *)
BuildAt(at, d) ==
    [pc |-> at, digest |-> d, ib |-> NoDigest, use |-> NoDigest, missed |-> FALSE]

(* everything but the blob store, the alias cache and the builds *)
single ==
    <<manifests, noPrune, manifests0, intermediateBlobs0, pc, mp, todo, tmpFile,
      digest, digests, next, locals, events, result, transfer>>

(* two builds for different Names about to call createModelBlob, the cache
   holding an entry whose target may be gone *)
ConcurrentInit ==
    /\ manifests = [n \in Names |-> NoManifest]
    /\ intermediateBlobs =
          [d \in {Digest(FileContent(1))} |-> Digest(IntermediateContent)]
    /\ blobs \in {BlobsOf(S) : S \in SUBSET {IntermediateContent, FileContent(1)}}
    /\ noPrune = FALSE
    /\ pc = "idle"
    /\ mp = NoModelPath
    /\ todo = 0
    /\ tmpFile = NoContent
    /\ digest = NoDigest
    /\ digests = <<>>
    /\ next = 0
    /\ baseLayers = <<>>
    /\ layers = <<>>
    /\ config = EmptyConfig
    /\ messages = <<>>
    /\ parameters = NoParams
    /\ configLayer = NoLayer
    /\ old = NoManifest
    /\ events = <<>>
    /\ result = NoErr
    /\ manifests0 = manifests
    /\ intermediateBlobs0 = intermediateBlobs
    /\ NoTransfer
    /\ builds \in [Names -> {BuildAt("b.lookup", Digest(FileContent(i))) : i \in 1..2}]
    /\ parameters0 = NoParams

(* another build is in the middle of its delete on the map *)
Racing(b) == \E a \in Names \ {b} : builds[a].pc = "b.deleting"

(* the runtime ends the process on a concurrent map access it detects *)
Crash == builds' = [a \in Names |-> [builds[a] EXCEPT !.pc = "crashed"]]

(* a read of intermediateBlobs[digest] by b: the entry, or none; beside a
   delete under way it may give either, or end the process *)
MapRead(b, seen, absent) ==
    LET d == builds[b].digest
        hit == builds' = [builds EXCEPT ![b].pc = seen,
                                        ![b].ib = intermediateBlobs[d]]
        miss == builds' = [builds EXCEPT ![b].pc = absent, ![b].use = d]
    IN  IF Racing(b)
        THEN \/ d \in DOMAIN intermediateBlobs /\ hit
             \/ miss
             \/ Crash
        ELSE IF d \in DOMAIN intermediateBlobs THEN hit ELSE miss

(* line 164 *)
BlobLookup(b) ==
    /\ builds[b].pc = "b.lookup"
    /\ MapRead(b, "b.stat", "b.ingest")
    /\ UNCHANGED <<single, blobs, intermediateBlobs>>

(* lines 165-177: os.Stat of the target's path *)
BlobStat(b) ==
    /\ builds[b].pc = "b.stat"
    /\ builds' =
          IF builds[b].ib \in DOMAIN blobs
          THEN [builds EXCEPT ![b].pc = "r.lookup"]
          ELSE [builds EXCEPT ![b].pc = "b.delete", ![b].missed = TRUE]
    /\ UNCHANGED <<single, blobs, intermediateBlobs>>

(* line 172: delete(intermediateBlobs, digest) begins *)
BlobDeleteBegin(b) ==
    /\ builds[b].pc = "b.delete"
    /\ \/ builds' = [builds EXCEPT ![b].pc = "b.deleting"]
       \/ Racing(b) /\ Crash
    /\ UNCHANGED <<single, blobs, intermediateBlobs>>

(* line 172: the delete is done *)
BlobDeleteEnd(b) ==
    /\ builds[b].pc = "b.deleting"
    /\ intermediateBlobs' =
          Restrict(intermediateBlobs, DOMAIN intermediateBlobs \ {builds[b].digest})
    /\ builds' = [builds EXCEPT ![b].pc = "b.ingest"]
    /\ UNCHANGED <<single, blobs>>

(* lines 180-204, on a file that hashes to the digest *)
BlobIngest(b) ==
    /\ builds[b].pc = "b.ingest"
    /\ blobs' = IF builds[b].digest \in DOMAIN blobs THEN blobs
                ELSE NewLayerStore(blobs, builds[b].digest[2])
    /\ builds' = [builds EXCEPT ![b].pc = "r.lookup"]
    /\ UNCHANGED <<single, intermediateBlobs>>

(* line 299 *)
LoopLookup(b) ==
    /\ builds[b].pc = "r.lookup"
    /\ MapRead(b, "r.stat", "r.open")
    /\ UNCHANGED <<single, blobs, intermediateBlobs>>

(* lines 300-312 *)
LoopStat(b) ==
    /\ builds[b].pc = "r.stat"
    /\ builds' =
          IF builds[b].ib \in DOMAIN blobs
          THEN [builds EXCEPT ![b].pc = "r.open", ![b].use = builds[b].ib]
          ELSE [builds EXCEPT ![b].pc = "r.open", ![b].use = builds[b].digest,
                              ![b].missed = TRUE]
    /\ UNCHANGED <<single, blobs, intermediateBlobs>>

(* lines 315-325 *)
LoopOpen(b) ==
    /\ builds[b].pc = "r.open"
    /\ builds' = [builds EXCEPT ![b].pc =
                     IF builds[b].use \in DOMAIN blobs THEN "finished" ELSE "failed"]
    /\ UNCHANGED <<single, blobs, intermediateBlobs>>

(* another process removes the blob the entry points at *)
EvictTarget ==
    /\ \E d \in {intermediateBlobs[x] : x \in DOMAIN intermediateBlobs}
                  \cap DOMAIN blobs :
          blobs' = Restrict(blobs, DOMAIN blobs \ {d})
    /\ UNCHANGED <<single, intermediateBlobs, builds>>

NextConcurrent ==
    \/ \E b \in Names : BlobLookup(b)
    \/ \E b \in Names : BlobStat(b)
    \/ \E b \in Names : BlobDeleteBegin(b)
    \/ \E b \in Names : BlobDeleteEnd(b)
    \/ \E b \in Names : BlobIngest(b)
    \/ \E b \in Names : LoopLookup(b)
    \/ \E b \in Names : LoopStat(b)
    \/ \E b \in Names : LoopOpen(b)
    \/ EvictTarget

SpecConcurrent == ConcurrentInit /\ [][NextConcurrent]_vars

(* ------------------------------- claims --------------------------------- *)

(* the manifest the build is publishing: its config layer and final layers *)
NewManifest ==
    [exists |-> TRUE,
     Config |-> [Digest |-> Digest(EncodeConfig(config)), MediaType |-> MediaConfig,
                 status |-> ""],
     Layers |-> [i \in 1..Len(layers) |->
                   [Digest |-> layers[i].Digest, MediaType |-> layers[i].MediaType,
                    status |-> ""]]]

Written == {"prune", "success", "done"}

(* C1: at every point of a build, failed builds and failed collections
   included, each Name's current manifest is exactly the one it had before
   the build or, for the Name being built and only once the write has
   happened, exactly the new one: the new config layer with the final layer
   list, whose DiffIDs are that list's digests. *)
C1_ManifestAtomicity ==
    \A n \in Names :
        \/ manifests[n] = manifests0[n]
        \/ /\ n = mp.name
           /\ pc \in Written
           /\ manifests[n] = NewManifest
           /\ config.RootFS.DiffIDs = [i \in 1..Len(layers) |-> layers[i].Digest]

C1_Witness ==
    /\ pc = "done"
    /\ result = "remove error"
    /\ manifests0[mp.name].exists
    /\ manifests[mp.name] = NewManifest
    /\ manifests[mp.name] # manifests0[mp.name]

(* C2: createModelBlob, asked to ingest under a digest the store does not
   hold a file whose bytes hash to another digest, returns the digest
   mismatch error (an I/O error of its own aside) and leaves no blob under
   the asserted digest. *)
C2_IntegrityEnforcement ==
    [][(/\ pc = "blob"
        /\ pc' # "blob"
        /\ digest \notin DOMAIN blobs
        /\ Digest(tmpFile) # digest)
       => (/\ result' \in {ErrDigestMismatch, "open error", "path error", "stat error",
                           ErrNotFound}
           /\ digest \notin DOMAIN blobs')]_vars

(* an alias entry for d whose target blob is gone *)
StaleAlias(d) ==
    /\ d \in DOMAIN intermediateBlobs
    /\ intermediateBlobs[d] \notin DOMAIN blobs

IOErrors == {"open error", "path error", "stat error", ErrNotFound}

(* the step of createModelBlob, of one pass of the digest loop *)
BlobStep == pc = "blob" /\ pc' # "blob"
ResolveStep == pc = "resolve" /\ next' # next

(* createModelBlob on a stale entry: the only failures are a mismatch of the
   file against the requested digest and I/O errors, the digest recorded is
   the requested one, only the file's own bytes are stored, and the entry is
   gone unless an I/O error ended the call *)
BlobOnStale ==
    (BlobStep /\ StaleAlias(digest)) =>
        /\ result' \in {"running", ErrDigestMismatch} \cup IOErrors
        /\ result' = ErrDigestMismatch => Digest(tmpFile) # digest
        /\ result' = "running" => digests' = Append(digests, digest)
        /\ \A d \in DOMAIN blobs' \ DOMAIN blobs : d = Digest(tmpFile)
        /\ result' \notin IOErrors => digest \notin DOMAIN intermediateBlobs'

(* a pass of the digest loop on a stale entry: no cached layer is announced,
   the pass fails only on an I/O or parse error, and the blob parsed is the
   requested digest's *)
ResolveOnStale ==
    (ResolveStep /\ StaleAlias(digests[next])) =>
        /\ events' = events
        /\ result' \in {"running", "parse error"} \cup IOErrors
        /\ result' = "running" =>
              /\ digests[next] \in DOMAIN blobs
              /\ baseLayers' = baseLayers \o
                     parseFromFile(digests[next], blobs[digests[next]])

(* C3 as stated: at both sites, resolving a stale alias does not fail the
   build, continues with the requested digest, and removes the entry from
   the alias cache. *)
C3_AliasEvictionBothSites ==
    [][/\ BlobOnStale
       /\ ResolveOnStale
       /\ (ResolveStep /\ StaleAlias(digests[next]))
             => digests[next] \notin DOMAIN intermediateBlobs']_vars

(* C3: resolving a stale alias does not fail the build and continues with
   the requested digest at both sites; createModelBlob removes the entry,
   while the digest loop of CreateCommunityModel leaves the alias cache as
   it is, so the entry stays for later lookups. *)
C3_AliasEviction ==
    [][/\ BlobOnStale
       /\ ResolveOnStale
       /\ (ResolveStep /\ StaleAlias(digests[next]))
             => intermediateBlobs' = intermediateBlobs]_vars

(* a build whose createModelBlob evicted an entry the cache held, and whose
   digest loop has since parsed that digest's own blob *)
C3_Witness ==
    /\ pc = "synth"
    /\ \E d \in DOMAIN intermediateBlobs0 :
          /\ d \notin DOMAIN intermediateBlobs
          /\ d \in Range(digests)
          /\ intermediateBlobs0[d] \notin DOMAIN blobs
          /\ parseFromFile(d, blobs[d]) = baseLayers
    /\ "using cached layer" \notin Range(events)

(* where CreateCommunityModel is once the overlay layers are appended, and
   once the base layers are read *)
PostParams == {"config", "status", "old", "write", "prune", "success"}
PostSynth == {"merge", "messages", "params"} \cup PostParams

(* the bytes a digest stands for *)
ContentOf(d) == d[2]

RECURSIVE InheritedOf(_)
(* the parameters the params layers of the base layers bls hold, an earlier
   layer's value for a key before a later layer's *)
InheritedOf(bls) ==
    IF bls = <<>> THEN NoParams
    ELSE LET l == Head(bls).Layer
             rest == InheritedOf(Tail(bls))
         IN  IF l.MediaType # MediaParams THEN rest
             ELSE [k \in ParamKeys |->
                     IF ContentOf(l.Digest).v[k] # Absent
                     THEN ContentOf(l.Digest).v[k] ELSE rest[k]]

ParamsLayers(ls) == {i \in 1..Len(ls) : ls[i].MediaType = MediaParams}

(* C4: past the merge step, with N the new parameters and I those of the
   inherited params layers, the merged map holds N's value for every key of
   N, I's value for every key of I that N lacks, and no other key; the layer
   list holds one params layer, the last, encoding the merged map, when the
   map is not empty and none when it is, so no inherited params layer
   remains. *)
C4_ParameterMerge ==
    pc \in PostParams =>
        LET N == parameters0
            I == InheritedOf(baseLayers)
            M == parameters
        IN  /\ \A k \in ParamKeys :
                  M[k] = IF N[k] # Absent THEN N[k] ELSE I[k]
            /\ IF Keys(M) # {}
               THEN /\ ParamsLayers(layers) = {Len(layers)}
                    /\ layers[Len(layers)].Digest = Digest(EncodeParams(M))
                    /\ layers[Len(layers)].status # ""
               ELSE ParamsLayers(layers) = {}

(* new parameters and two inherited overlays that disagree with them and
   with each other, merged and published *)
C4_Witness ==
    /\ pc = "success"
    /\ parameters0["a"] = "2" /\ parameters0["b"] = Absent
    /\ Len(baseLayers) = 2
    /\ baseLayers[1].Layer.Digest = Digest(EncodeParams(InheritedParams))
    /\ baseLayers[2].Layer.Digest = Digest(EncodeParams(OtherParams))
    /\ ParamsLayers([i \in 1..2 |-> baseLayers[i].Layer]) = {1, 2}
    /\ parameters = [k \in ParamKeys |-> "2"]
    /\ Len(layers) = 1
    /\ manifests[mp.name].Layers[1].Digest = Digest(EncodeParams(parameters))

(* a layer holding a message history *)
IsMessageHistory(l) == l.MediaType \in {MediaMessage, MediaMessages}

(* C5: past the merge step, an inherited message-history layer is in the
   final layer list when the build has no new messages, and absent from it
   when the build has some. *)
C5_MessageOverride ==
    pc \in PostParams =>
        \A i \in 1..Len(baseLayers) :
            IsMessageHistory(baseLayers[i].Layer) =>
                IF Len(messages) = 0
                THEN baseLayers[i].Layer \in Range(layers)
                ELSE baseLayers[i].Layer \notin Range(layers)

RECURSIVE FirstNonEmpty(_)
(* the first value of the sequence that is not "", "" when there is none *)
FirstNonEmpty(vs) ==
    IF vs = <<>> THEN ""
    ELSE IF Head(vs) # "" THEN Head(vs) ELSE FirstNonEmpty(Tail(vs))

RECURSIVE Metadata(_)
(* the model metadata of the base layers that carry some, in order *)
Metadata(bls) ==
    IF bls = <<>> THEN <<>>
    ELSE (IF Head(bls).GGML.nil THEN <<>> ELSE <<Head(bls).GGML>>)
         \o Metadata(Tail(bls))

(* C6: once the base layers are read, each scalar field of the config is the
   first non-empty value of that field among the base layers carrying model
   metadata, in processing order, and empty when there is none; ModelFamilies
   has one entry per such layer, in order, duplicates and all. *)
C6_ConfigFirstWriteWins ==
    pc \in PostSynth =>
        LET gs == Metadata(baseLayers)
            field(f) == [i \in 1..Len(gs) |-> gs[i][f]]
        IN  /\ config.ModelFormat = FirstNonEmpty(field("Name"))
            /\ config.ModelFamily = FirstNonEmpty(field("Architecture"))
            /\ config.ModelType =
                   FirstNonEmpty([i \in 1..Len(gs) |-> ToString(gs[i].ParameterCount)])
            /\ config.FileType = FirstNonEmpty(field("FileType"))
            /\ config.ModelFamilies = field("Architecture")

(* two metadata-carrying base layers that disagree on every field, the
   second with an empty architecture *)
C6_Witness ==
    /\ pc = "merge"
    /\ Len(baseLayers) = 2
    /\ ~baseLayers[1].GGML.nil /\ ~baseLayers[2].GGML.nil
    /\ baseLayers[1].GGML.Name = "gguf" /\ baseLayers[2].GGML.Name = "other"
    /\ config.ModelFormat = "gguf"
    /\ config.FileType = "Q4_0"
    /\ config.ModelFamilies = <<"llama", "">>

(* C7: every manifest in the store, the one the build publishes included,
   has a config blob whose RootFS.DiffIDs are the digests of the manifest's
   Layers, element for element and in order. *)
C7_DiffIDs ==
    \A n \in Names :
        manifests[n].exists =>
            /\ manifests[n].Config.Digest \in DOMAIN blobs
            /\ blobs[manifests[n].Config.Digest].kind = "config"
            /\ blobs[manifests[n].Config.Digest].v.RootFS.DiffIDs =
                   [i \in 1..Len(manifests[n].Layers) |-> manifests[n].Layers[i].Digest]

(* a published manifest whose layer list the merge shortened and extended:
   an inherited params layer removed, a model layer kept, new messages and
   params layers appended *)
C7_Witness ==
    /\ pc \in Written
    /\ mp.name \in Names
    /\ manifests[mp.name] # manifests0[mp.name]
    /\ Len(baseLayers) = 2
    /\ baseLayers[1].Layer.MediaType = MediaParams
    /\ baseLayers[2].Layer.MediaType = MediaModel
    /\ Len(messages) > 0
    /\ Len(manifests[mp.name].Layers) = 3
    /\ manifests[mp.name].Layers[1] = baseLayers[2].Layer
    /\ manifests[mp.name].Layers[3].MediaType = MediaParams

(* a finished build from two files of distinct content, for a Name without
   a manifest, in which no alias was substituted and each file parsed to one
   layer *)
TwoFileBuild ==
    /\ pc = "done"
    /\ result = NoErr
    /\ mp.files = 2
    /\ Len(digests) = 2
    /\ digests[1] # digests[2]
    /\ ~manifests0[mp.name].exists
    /\ "using cached layer" \notin Range(events)
    /\ Len(baseLayers) = 2

(* what the scenario yields apart from DiffIDs: the two layers of the two
   digests passed through the merge, a config derived from both, the
   manifest written, no collection, "success" last *)
TwoFileOutcome ==
    /\ layers = [i \in 1..2 |-> baseLayers[i].Layer]
    /\ [i \in 1..2 |-> layers[i].Digest] = digests
    /\ Len(config.ModelFamilies) = Len(Metadata(baseLayers))
    /\ config.ModelFormat = FirstNonEmpty([i \in 1..2 |-> baseLayers[i].GGML.Name])
    /\ manifests[mp.name] = NewManifest
    /\ manifests[mp.name].Config.Digest \in DOMAIN blobs
    /\ ~old.exists
    /\ events[Len(events)] = "success"

(* C8 as stated: the two-file build writes a manifest whose DiffIDs are the
   two file digests followed by the digest of the config. *)
C8_EndToEndWithConfigDigest ==
    TwoFileBuild =>
        /\ TwoFileOutcome
        /\ config.RootFS.DiffIDs =
               <<digests[1], digests[2], manifests[mp.name].Config.Digest>>

(* C8: the two-file build yields two distinct digests and two layers, the
   merge passes them through, and the manifest is written with DiffIDs equal
   to the two file digests in order; the config's digest is that of the
   manifest's config layer and not one of the DiffIDs. No collection takes
   place and the last status is "success". *)
C8_EndToEnd ==
    TwoFileBuild =>
        /\ TwoFileOutcome
        /\ config.RootFS.DiffIDs = <<digests[1], digests[2]>>
        /\ blobs[manifests[mp.name].Config.Digest].v.RootFS.DiffIDs = digests

C8_Witness ==
    /\ TwoFileBuild
    /\ digests = <<Digest(FileContent(2)), Digest(FileContent(1))>>
    /\ Len(manifests[mp.name].Layers) = 2
    /\ events[Len(events)] = "success"

(* a step of the build that takes a blob out of the store; the steps of the
   environment leave pc and next as they are *)
BuildStep == pc' # pc \/ next' # next
Removes == \E d \in DOMAIN blobs : d \notin DOMAIN blobs'

(* C9: a build removes blobs only in its collection step, which comes after
   the new manifest is written and current, only with the old manifest it
   read before the write, only when pruning is not disabled, and only
   layers of that old manifest no manifest refers to; a failed write ends
   the build before that step. The write itself can always take place,
   whatever old is. *)
C9_PublishThenCollect ==
    /\ [](pc = "write" => ENABLED (Write /\ pc' = "prune"))
    /\ [][(BuildStep /\ Removes) =>
            /\ pc = "prune"
            /\ ~noPrune
            /\ old.exists
            /\ old = manifests0[mp.name]
            /\ manifests[mp.name] = NewManifest
            /\ events[Len(events)] = "writing manifest"
            /\ \A d \in DOMAIN blobs \ DOMAIN blobs' :
                  /\ d \in {old.Layers[i].Digest : i \in 1..Len(old.Layers)}
                            \cup {old.Config.Digest}
                  /\ d \notin Referenced(manifests)]_vars

(* a finished build that replaced an old manifest and collected its model
   layer *)
C9_Witness ==
    /\ pc = "done"
    /\ result = NoErr
    /\ old.exists
    /\ manifests[mp.name] # old
    /\ old.Layers[1].Digest \notin DOMAIN blobs
    /\ events[Len(events)] = "success"

(* C10: when the collection of the old manifest's layers fails, the build
   returns that error without the "success" status, and the Name's current
   manifest is the new one. *)
C10_GCFailure ==
    (pc = "done" /\ result = "remove error") =>
        /\ "success" \notin Range(events)
        /\ events[Len(events)] = "writing manifest"
        /\ manifests[mp.name] = NewManifest
        /\ old.exists
        /\ ~noPrune

(* a collection that failed on the old manifest's second layer, after it
   removed the first, with a new manifest that differs from the old *)
C10_Witness ==
    /\ pc = "done"
    /\ result = "remove error"
    /\ manifests[mp.name] = NewManifest
    /\ manifests[mp.name] # old
    /\ Len(old.Layers) = 2
    /\ old.Layers[1].Digest \notin DOMAIN blobs
    /\ old.Layers[2].Digest \in DOMAIN blobs

(* the build has not written its manifest: it is under way before the write,
   or it ended with an error other than that of the collection *)
NotPublished ==
    /\ pc \notin {"prune", "success"}
    /\ pc = "done" => result \notin {NoErr, "remove error"}

(* C11: as long as the manifest write has not succeeded, an ended build
   with any error included, every Name's manifest is the one it had before
   the build; and no step of the build before the collection deletes a blob
   or changes the bytes under a digest: it only adds blobs. *)
C11_NoPartialPublish ==
    /\ [](NotPublished => manifests = manifests0)
    /\ [][(BuildStep /\ pc # "prune") =>
            \A d \in DOMAIN blobs :
                d \in DOMAIN blobs' /\ blobs'[d] = blobs[d]]_vars

(* a build for a Name that has a manifest, failed at the config layer after
   it ingested a file the store did not hold *)
C11_Witness ==
    /\ pc = "done"
    /\ result = "layer error"
    /\ mp.name \in Names
    /\ manifests0[mp.name].exists
    /\ manifests = manifests0
    /\ Digest(FileContent(2)) \in DOMAIN blobs
    /\ Len(layers) > 0

(* C12: createModelBlob called again on the same digest and bytes, after a
   call that returned no error, returns no error and leaves the blob store
   as the first call left it; and createModelBlob on a digest the store
   holds leaves the blob store as it is. *)
C12_IdempotentIngestion ==
    (pc = "blob" /\ Digest(tmpFile) = digest) =>
        /\ \A f \in BlobFaults :
              LET first == createModelBlob(blobs, intermediateBlobs, digest, tmpFile, f)
                  second == createModelBlob(first.blobs, first.aliases, digest,
                                            tmpFile, "none")
              IN  first.err = NoErr =>
                      second.err = NoErr /\ second.blobs = first.blobs
        /\ digest \in DOMAIN blobs =>
              \A f \in BlobFaults :
                  createModelBlob(blobs, intermediateBlobs, digest, tmpFile, f).blobs
                      = blobs

(* C13: once done is closed the goroutine ends, given that it is scheduled;
   the 100% message, which it sets only after done is closed, is the last
   message the spinner gets; and as long as done is not made, the returns
   on an error included, there is no goroutine. *)
C13_TerminalStatus ==
    /\ [](done = "closed" => <>(ticker = "exited"))
    /\ [][spinner = FullStatus => spinner' = FullStatus]_vars
    /\ [](spinner = FullStatus => done = "closed" /\ ticker \in {"stopping", "exited"})
    /\ [](done = "nil" => ticker = "none")
    /\ []((pc = "done" /\ result # NoErr) => done = "nil")

(* the call returned its digest and the goroutine ended on 100% *)
C13_Witness ==
    /\ pc = "blob"
    /\ digest = Digest(tmpFile)
    /\ done = "closed"
    /\ ticker = "exited"
    /\ spinner = FullStatus
    /\ p = "stopped"

(* C17: while io.Copy has not hashed the whole file, the ticking goroutine
   is there, able to set a periodic status. *)
C17_TickerDuringHashing ==
    (pc = "t.copy" /\ hashed < Size(tmpFile)) => ticker \in {"started", "ticking"}

(* the digests a manifest refers to: its layers and its config layer *)
Refs(m) == {m.Layers[i].Digest : i \in 1..Len(m.Layers)} \cup {m.Config.Digest}

(* the build has written its manifest *)
Activated ==
    /\ pc \in Written
    /\ mp.name \in Names
    /\ manifests[mp.name] # manifests0[mp.name]

(* C14 as stated: once the new manifest is current, every digest it refers
   to is in the blob store. *)
C14_NoDanglingLayersAtAll ==
    Activated => Refs(manifests[mp.name]) \subseteq DOMAIN blobs

(* C14: no step, the collection included, removes or changes a blob that a
   current manifest refers to; so once the new manifest is current every
   digest it refers to is in the blob store, the layers it shares with the
   superseded manifest and its config layer included, but for the target of
   an alias that the digest loop substituted and that another process
   removed before the write. *)
C14_NoDanglingLayers ==
    /\ [][\A d \in Referenced(manifests) \cap DOMAIN blobs :
             d \in DOMAIN blobs' /\ blobs'[d] = blobs[d]]_vars
    /\ [](Activated =>
            \A d \in Refs(manifests[mp.name]) :
                \/ d \in DOMAIN blobs
                \/ /\ "using cached layer" \in Range(events)
                   /\ d \in {intermediateBlobs[x] : x \in DOMAIN intermediateBlobs}
                   /\ d \notin Refs(old) \cup {manifests[mp.name].Config.Digest})

(* a finished build whose collection removed the old manifest's params
   layer and kept the model layer the new manifest shares with it *)
C14_Witness ==
    /\ pc = "done"
    /\ result = NoErr
    /\ old.exists
    /\ Len(old.Layers) = 2
    /\ manifests[mp.name] # old
    /\ old.Layers[1].Digest \in Refs(manifests[mp.name])
    /\ old.Layers[1].Digest \in DOMAIN blobs
    /\ old.Layers[2].Digest \notin DOMAIN blobs

(* C15: when createModelBlob returns no error, and the digest is appended
   to the list for CreateCommunityModel, the blob store holds a blob under
   the digest or under the target of its alias. *)
C15_IngestionBeforeReference ==
    [][(BlobStep /\ result' = "running") =>
          /\ digests' = Append(digests, digest)
          /\ \/ digest \in DOMAIN blobs'
             \/ /\ digest \in DOMAIN intermediateBlobs'
                /\ intermediateBlobs'[digest] \in DOMAIN blobs']_vars

(* a params layer the merge scan cannot open, or cannot decode *)
FailsToDecode(l) ==
    /\ l.MediaType = MediaParams
    /\ l.Digest \in DOMAIN blobs => blobs[l.Digest].kind # "params"
FailureOf(l) == IF l.Digest \notin DOMAIN blobs THEN "open error" ELSE "decode error"

(* the step of the merge scan *)
MergeStep == pc = "merge" /\ pc' # "merge"

(* C16: when the merge scan meets params layers it cannot open or decode,
   it still visits every other layer (the decodable params layers are
   folded in and removed), and the build then returns an error, that of the
   first such layer in list order, and writes no manifest. *)
C16_DeferredDecodeError ==
    [][(MergeStep /\ \E i \in 1..Len(layers) : FailsToDecode(layers[i])) =>
          LET first == CHOOSE i \in 1..Len(layers) :
                          /\ FailsToDecode(layers[i])
                          /\ \A j \in 1..(i - 1) : ~FailsToDecode(layers[j])
          IN  /\ pc' = "done"
              /\ manifests' = manifests
              /\ \A i \in 1..Len(layers) :
                    (layers[i].MediaType = MediaParams /\ ~FailsToDecode(layers[i]))
                        => layers[i] \notin Range(layers')
              /\ result' = FailureOf(layers[first])]_vars

(* C18: a not-found error of GetBlobsPath for the target of an alias does
   not end the build, neither in createModelBlob nor in the digest loop of
   CreateCommunityModel. *)
C18_PathMissNotFatal ==
    [][(BlobStep \/ ResolveStep) => result' # ErrNotFound]_vars

(* the places of "success" among the statuses emitted *)
Successes == {i \in 1..Len(events) : events[i] = "success"}

(* C19: "success" is emitted at most once and nothing is emitted after it;
   the manifest changes only with "writing manifest" emitted; "success" is
   there only with the new manifest current and the collection skipped or
   run to its end, every blob of the old manifest that no manifest refers
   to removed; and the build returns nil exactly when "success" was
   emitted. *)
C19_SuccessTerminal ==
    /\ [](Successes \subseteq {Len(events)})
    /\ [][Successes # {} => events' = events]_vars
    /\ [][manifests' # manifests =>
            events'[Len(events')] = "writing manifest"]_vars
    /\ [](Successes # {} =>
            /\ pc = "done"
            /\ manifests[mp.name] = NewManifest
            /\ "writing manifest" \in Range(events)
            /\ (~noPrune /\ old.exists) =>
                  \A d \in Refs(old) \ Referenced(manifests) : d \notin DOMAIN blobs)
    /\ [](pc = "done" => (result = NoErr <=> Successes # {}))

(* a finished build that replaced a manifest with pruning disabled: the
   statuses end with "writing manifest" and "success" and the old blobs are
   all there *)
C19_Witness ==
    /\ pc = "done"
    /\ result = NoErr
    /\ Len(events) >= 3
    /\ events[Len(events)] = "success"
    /\ events[Len(events) - 1] = "writing manifest"
    /\ noPrune
    /\ old.exists
    /\ manifests[mp.name] # old
    /\ Refs(old) \subseteq DOMAIN blobs

(* b takes a step that reads the alias cache, or begins to delete from it *)
CacheAccess(b) ==
    /\ builds[b].pc \in {"b.lookup", "r.lookup", "b.delete"}
    /\ builds'[b].pc # builds[b].pc

(* C20: no build reads the alias cache or begins to evict from it while
   another build is in the middle of an eviction, and no build substitutes
   an alias target after another build's os.Stat found that target gone. *)
C20_AliasCacheExclusion ==
    [][\A b \in DOMAIN builds :
          /\ CacheAccess(b) =>
                \A a \in DOMAIN builds \ {b} : builds[a].pc # "b.deleting"
          /\ (builds[b].pc = "r.stat" /\ builds'[b].use = builds[b].ib) =>
                \A a \in DOMAIN builds \ {b} :
                    ~(builds[a].missed /\ builds[a].ib = builds[b].ib)]_vars

====
